---------------------------- MODULE Spec2Model ----------------------------
(***************************************************************************)
(* Model of the night-is-hell gameplay layer: the orbit camera controller  *)
(* (crates/game_logic/src/camera_logic.rs) and the debug telemetry         *)
(* pipeline (crates/game_logic/src/debug_logic.rs).                        *)
(*                                                                         *)
(* f32 values are fixed-point integers: one unit is 1/Milli.  Angles are   *)
(* milli-radians, lengths milli-units, frame times milliseconds,           *)
(* interpolation factors thousandths.  Pointer deltas are whole pixels,    *)
(* scroll deltas whole lines, smoothness whole 1/seconds.                  *)
(***************************************************************************)
EXTENDS Integers, Sequences, FiniteSets, TLC

VARIABLES
    cameras,        \* Seq of [orbit |-> OrbitCamera, transform |-> Transform]
    targets,        \* Seq of translations of the Player entities without Camera
    motion_unread,  \* MouseMotion messages the reader's cursor has not passed
    wheel_unread,   \* MouseWheel messages the reader's cursor has not passed
    ticks,          \* number of runs of orbit_camera_controls so far
    cam_prev,       \* history: cameras before the last controller run
    cam_last,       \* history: what the last controller run saw and did
    in_preload,     \* the application is in AppState::Preload
    overlay,        \* DebugOverlayState.0
    sys_stats,      \* the SysStats resource
    snapshot,       \* the DebugSnapshot resource
    frame_delta,    \* Time::delta of the current frame, in milliseconds
    host,           \* what the OS, GPU and engine report during the current frame
    pending,        \* telemetry systems still to run in the current frame
    ran,            \* telemetry systems run so far in the current frame, in order
    calls,          \* backend calls made by the last system run, in order
    frames,         \* number of frames begun so far
    since_fire,     \* history: frame time ticked into the timer since it last fired
    arg,            \* the function called on its own and its argument, None if none is
    result          \* Some(what that call returned), None before it returns

cam_vars == <<cameras, targets, motion_unread, wheel_unread, ticks, cam_prev, cam_last>>

tel_vars == <<in_preload, overlay, sys_stats, snapshot, frame_delta, host, pending, ran, calls, frames, since_fire>>

fn_vars == <<arg, result>>

vars == <<cam_vars, tel_vars, fn_vars>>

-----------------------------------------------------------------------------
(* Bounds of the model *)

MaxTicks == 3
MaxTargets == 2
MaxPending == 2
MaxFrames == 3
MaxCameras == 2

-----------------------------------------------------------------------------
(* Fixed-point arithmetic standing for f32 *)

Milli == 1000

Abs(v) == IF v < 0 THEN -v ELSE v

\* Division rounded to the nearest unit, symmetric about zero.
RoundDiv(n, d) == IF n >= 0 THEN (2 * n + d) \div (2 * d) ELSE -((2 * (-n) + d) \div (2 * d))

\* f32::clamp
Clamp(v, lo, hi) == IF v < lo THEN lo ELSE IF v > hi THEN hi ELSE v

\* exp(-f/Milli) for 0 <= f < Milli, in millionths: the Taylor series.
ExpNegFrac(f) ==
    LET t1 == f * 1000
        t2 == (t1 * f) \div 2000
        t3 == (t2 * f) \div 3000
        t4 == (t3 * f) \div 4000
        t5 == (t4 * f) \div 5000
        t6 == (t5 * f) \div 6000
        t7 == (t6 * f) \div 7000
        t8 == (t7 * f) \div 8000
    IN  1000000 - t1 + t2 - t3 + t4 - t5 + t6 - t7 + t8

\* exp(-n) for a natural n, in millionths; below one millionth from n = 14 on.
RECURSIVE ExpNegInt(_)
ExpNegInt(n) ==
    IF n = 0 THEN 1000000
    ELSE IF n >= 14 THEN 0
    ELSE ((ExpNegInt(n - 1) \div 100) * 36788) \div 1000

\* exp(-x/Milli) for x >= 0, in thousandths.
ExpNeg(x) == RoundDiv((ExpNegInt(x \div Milli) \div 100) * (ExpNegFrac(x % Milli) \div 100), 100000)

\* f32::exp of e/Milli, in thousandths (e may have either sign).
Exp(e) ==
    IF e <= 0 THEN ExpNeg(-e)
    ELSE LET d == ExpNeg(e) IN (Milli * Milli) \div (IF d = 0 THEN 1 ELSE d)

Pi == 3142
HalfPi == 1571
TwoPi == 6283

\* sin(r/Milli) for |r| <= HalfPi, in thousandths: the Taylor series.
SinSeries(r) ==
    LET r2 == (r * r) \div Milli
        s1 == r * 1000
        s3 == ((s1 \div 6) * r2) \div Milli
        s5 == ((s3 \div 20) * r2) \div Milli
        s7 == ((s5 \div 42) * r2) \div Milli
        s9 == ((s7 \div 72) * r2) \div Milli
    IN  RoundDiv(s1 - s3 + s5 - s7 + s9, 1000)

\* f32::sin of a/Milli, in thousandths.
Sin(a) ==
    LET m == a % TwoPi
        r == IF m > Pi THEN m - TwoPi ELSE m
        q == IF r > HalfPi THEN Pi - r ELSE IF r < -HalfPi THEN -Pi - r ELSE r
    IN  SinSeries(q)

\* f32::cos of a/Milli, in thousandths.
Cos(a) == Sin(a + HalfPi)

Vec3(x, y, z) == [x |-> x, y |-> y, z |-> z]

Vec3Add(a, b) == Vec3(a.x + b.x, a.y + b.y, a.z + b.z)

Vec3Sub(a, b) == Vec3(a.x - b.x, a.y - b.y, a.z - b.z)

Vec3Lerp(a, b, t) == Vec3(a.x + RoundDiv((b.x - a.x) * t, Milli), a.y + RoundDiv((b.y - a.y) * t, Milli), a.z + RoundDiv((b.z - a.z) * t, Milli))

Vec2(x, y) == [x |-> x, y |-> y]

-----------------------------------------------------------------------------
(* Orbit camera: constants of orbit_camera_controls *)

RotateSensitivity == 5
ZoomSensitivity == 600
PitchMin == -1200
PitchMax == 1200
RadiusMin == 3000
RadiusMax == 18000
\* f32::EPSILON (1.19e-7) is below one fixed-point unit.
Epsilon == 0

-----------------------------------------------------------------------------
(* Orbit camera: the scene created by setup_test_scene *)

SetupOrbit ==
    [ radius |-> 8000, yaw |-> 0, pitch |-> -300,
      target_radius |-> 8000, target_yaw |-> 0, target_pitch |-> -300,
      rotation_smoothness |-> 12, zoom_smoothness |-> 10, position_smoothness |-> 14,
      follow_offset |-> Vec3(0, 1200, 0) ]

\* Transform::looking_at / look_at: the orientation is kept as the direction
\* it is derived from, the vector from the translation to the focus point.
LookAt(translation, focus) == [translation |-> translation, forward |-> Vec3Sub(focus, translation)]

SetupTransform == LookAt(Vec3(0, 3000, 8000), Vec3(0, 0, 0))

\* spawn_test_player_cube: the one Player entity, at (0, 0.5, 0)
SetupPlayer == Vec3(0, 500, 0)

-----------------------------------------------------------------------------
(* Orbit camera: inputs of one frame *)

\* Frame times Time::delta_secs can report, in milliseconds.
FrameTimes == {0, 16, 100, 2000}

\* Button state and the messages delivered in one frame.  Pointer deltas are
\* pixels, scroll deltas thousandths of a line.
FrameInputs ==
    { [pressed |-> FALSE, motion |-> <<>>, wheel |-> <<>>],
      [pressed |-> TRUE, motion |-> <<Vec2(100, 0)>>, wheel |-> <<-20000>>],
      [pressed |-> TRUE, motion |-> <<Vec2(60, 300), Vec2(40, 100)>>, wheel |-> <<1000>>],
      [pressed |-> FALSE, motion |-> <<Vec2(100, -400)>>, wheel |-> <<1000, -1000>>],
      [pressed |-> TRUE, motion |-> <<Vec2(-30, -400)>>, wheel |-> <<15000, 5000>>] }

\* Where a Player entity spawned as the n-th target stands.
SpawnTranslation(n) == IF n = 1 THEN SetupPlayer ELSE Vec3(2000, 500, -1000)

\* for event in motion_events.read() { motion_delta += event.delta }
RECURSIVE MotionDelta(_)
MotionDelta(events) ==
    IF events = <<>> THEN Vec2(0, 0)
    ELSE LET rest == MotionDelta(Tail(events))
         IN  Vec2(Head(events).x + rest.x, Head(events).y + rest.y)

\* for event in wheel_events.read() { scroll_delta += event.y }
RECURSIVE ScrollDelta(_)
ScrollDelta(events) == IF events = <<>> THEN 0 ELSE Head(events) + ScrollDelta(Tail(events))

-----------------------------------------------------------------------------
(* Orbit camera: orbit_camera_controls *)

\* Faulty variant of SingleTarget: the first match is taken, as with iter().next().
SingleTargetFirst(ts) == Len(ts) >= 1

\* targets.single() is Ok: exactly one entity matches the query.
SingleTarget(ts) == Len(ts) = 1

\* Faulty variant of NewTargetYaw: the button is not looked at.
NewTargetYawUngated(orbit, pressed, delta) == orbit.target_yaw - delta.x * RotateSensitivity

\* Faulty variant of NewTargetYaw: += instead of -=.
NewTargetYawAdded(orbit, pressed, delta) ==
    IF pressed THEN orbit.target_yaw + delta.x * RotateSensitivity ELSE orbit.target_yaw

\* if pressed { orbit.target_yaw -= motion_delta.x * 0.005 }
NewTargetYaw(orbit, pressed, delta) ==
    IF pressed THEN orbit.target_yaw - delta.x * RotateSensitivity ELSE orbit.target_yaw

\* Faulty variant of NewTargetPitch: the clamp after the subtraction is missing.
NewTargetPitchUnclamped(orbit, pressed, delta) ==
    IF pressed THEN orbit.target_pitch - delta.y * RotateSensitivity ELSE orbit.target_pitch

NewTargetPitch(orbit, pressed, delta) ==
    IF pressed
    THEN Clamp(orbit.target_pitch - delta.y * RotateSensitivity, PitchMin, PitchMax)
    ELSE orbit.target_pitch

\* Faulty variant of NewTargetRadius: the clamp is missing.
NewTargetRadiusUnclamped(orbit, scroll) ==
    IF Abs(scroll) > Epsilon
    THEN orbit.target_radius - RoundDiv(scroll * ZoomSensitivity, Milli)
    ELSE orbit.target_radius

NewTargetRadius(orbit, scroll) ==
    IF Abs(scroll) > Epsilon
    THEN Clamp(orbit.target_radius - RoundDiv(scroll * ZoomSensitivity, Milli), RadiusMin, RadiusMax)
    ELSE orbit.target_radius

\* Faulty variant of SmoothFactor: smoothness * dt, the linearisation.
SmoothFactorLinear(smoothness, dt) == smoothness * dt

\* Faulty variant of SmoothFactor: 1.0 + exp(..), a sign slip.
SmoothFactorPlus(smoothness, dt) == Milli + Exp(-(smoothness * dt))

\* 1.0 - (-smoothness * dt).exp(), in thousandths; dt in milliseconds.
SmoothFactor(smoothness, dt) == Milli - Exp(-(smoothness * dt))

\* Faulty variant of Lerp: a + (a - b) * t, the operands of the difference swapped.
LerpAway(a, b, t) == a + RoundDiv((a - b) * t, Milli)

\* f32::lerp: a + (b - a) * t
Lerp(a, b, t) == a + RoundDiv((b - a) * t, Milli)

\* Quat::from_rotation_y(yaw) * Quat::from_rotation_x(pitch) * Vec3::new(0, 0, radius)
OrbitOffset(yaw, pitch, radius) ==
    LET flat == RoundDiv(radius * Cos(pitch), Milli)
    IN  Vec3(RoundDiv(flat * Sin(yaw), Milli), -RoundDiv(radius * Sin(pitch), Milli), RoundDiv(flat * Cos(yaw), Milli))

\* The body of the loop over the cameras, for one camera.
UpdateCamera(cam, target, pressed, delta, scroll, dt) ==
    LET old == cam.orbit
        target_yaw == NewTargetYaw(old, pressed, delta)
        target_pitch == NewTargetPitch(old, pressed, delta)
        target_radius == NewTargetRadius(old, scroll)
        rotation_t == SmoothFactor(old.rotation_smoothness, dt)
        zoom_t == SmoothFactor(old.zoom_smoothness, dt)
        position_t == SmoothFactor(old.position_smoothness, dt)
        focus_point == Vec3Add(target, old.follow_offset)
        \* The camera once orbit.yaw, orbit.pitch and orbit.radius are written.
        Placed(yaw, pitch, radius) ==
            LET desired_translation == { Vec3Add(focus_point, offset) :
                                            offset \in {OrbitOffset(yaw, pitch, radius)} }
                translation == { Vec3Lerp(cam.transform.translation, desired, t) :
                                    desired \in desired_translation, t \in {position_t} }
                placed == { [ orbit |-> [old EXCEPT !.target_yaw = target_yaw, !.target_pitch = target_pitch,
                                                    !.target_radius = target_radius, !.yaw = yaw,
                                                    !.pitch = pitch, !.radius = radius],
                              transform |-> LookAt(at, focus_point) ] : at \in translation }
            IN  CHOOSE cam_after \in placed : TRUE
        \* Every line of the loop body is evaluated once, in the order of the
        \* code: a one-element set holds the value the later lines read.
        updated == { Placed(yaw, pitch, radius) :
                        yaw \in {Lerp(old.yaw, target_yaw, rotation_t)},
                        pitch \in {Lerp(old.pitch, target_pitch, rotation_t)},
                        radius \in {Lerp(old.radius, target_radius, zoom_t)} }
    IN  CHOOSE cam_after \in updated : TRUE

\* Faulty variant of UpdateCameras: the messages are read inside the loop, so
\* the first camera consumes them and the others see none.
UpdateCamerasFirstReads(cams, target, pressed, delta, scroll, dt) ==
    [i \in DOMAIN cams |->
        IF i = 1 THEN UpdateCamera(cams[i], target, pressed, delta, scroll, dt)
        ELSE UpdateCamera(cams[i], target, pressed, Vec2(0, 0), 0, dt)]

\* for (mut orbit, mut transform) in cameras.iter_mut() { .. }
UpdateCameras(cams, target, pressed, delta, scroll, dt) ==
    [i \in DOMAIN cams |-> UpdateCamera(cams[i], target, pressed, delta, scroll, dt)]

\* One run of the system in a frame that delivers input.motion and
\* input.wheel.  retained: the engine's message buffers still hold what the
\* reader left unread in the previous frame.
orbit_camera_controls(input, dt, retained) ==
    /\ LET motion == (IF retained THEN motion_unread ELSE <<>>) \o input.motion
           wheel == (IF retained THEN wheel_unread ELSE <<>>) \o input.wheel
           delta == MotionDelta(motion)
           scroll == ScrollDelta(wheel)
       IN  /\ Len(motion) <= MaxPending
           /\ Len(wheel) <= MaxPending
           /\ IF SingleTarget(targets)
              THEN /\ cameras' = UpdateCameras(cameras, targets[1], input.pressed, delta, scroll, dt)
                   /\ motion_unread' = <<>>
                   /\ wheel_unread' = <<>>
                   /\ cam_last' = [op |-> "update", targets |-> Len(targets), pressed |-> input.pressed,
                                   delta |-> delta, scroll |-> scroll, dt |-> dt]
              ELSE /\ cameras' = cameras
                   /\ motion_unread' = motion
                   /\ wheel_unread' = wheel
                   /\ cam_last' = [op |-> "return", targets |-> Len(targets), pressed |-> input.pressed,
                                   delta |-> delta, scroll |-> scroll, dt |-> dt]
    /\ cam_prev' = cameras
    /\ UNCHANGED targets

\* One frame of the Update schedule: the system runs once.
Tick(input, dt, retained) ==
    /\ ticks < MaxTicks
    /\ orbit_camera_controls(input, dt, retained)
    /\ ticks' = ticks + 1

\* The world gains a Player entity without Camera (outside this system).
SpawnPlayer ==
    /\ Len(targets) < MaxTargets
    /\ targets' = Append(targets, SpawnTranslation(Len(targets) + 1))
    /\ UNCHANGED <<cameras, motion_unread, wheel_unread, ticks, cam_prev, cam_last>>

\* The world loses the Player entity spawned last (outside this system).
DespawnPlayer ==
    /\ targets # <<>>
    /\ targets' = SubSeq(targets, 1, Len(targets) - 1)
    /\ UNCHANGED <<cameras, motion_unread, wheel_unread, ticks, cam_prev, cam_last>>

-----------------------------------------------------------------------------
(* Telemetry: strings.  A String the code trims, scans or formats is a     *)
(* sequence of characters; the others are plain strings.                   *)

Whitespace == {" ", "\t"}

\* str::trim_start
RECURSIVE TrimStart(_)
TrimStart(s) == IF s # <<>> /\ Head(s) \in Whitespace THEN TrimStart(Tail(s)) ELSE s

\* str::trim_end
RECURSIVE TrimEnd(_)
TrimEnd(s) ==
    IF s # <<>> /\ s[Len(s)] \in Whitespace THEN TrimEnd(SubSeq(s, 1, Len(s) - 1)) ELSE s

\* str::trim
Trim(s) == TrimEnd(TrimStart(s))

Digit(d) == <<"0", "1", "2", "3", "4", "5", "6", "7", "8", "9">>[d + 1]

\* The decimal digits of a natural number, as format! writes them.
RECURSIVE Decimal(_)
Decimal(n) == IF n < 10 THEN <<Digit(n)>> ELSE Decimal(n \div 10) \o <<Digit(n % 10)>>

-----------------------------------------------------------------------------
(* Telemetry: fmt_bytes and detect_v_ram_best_effort *)

MIB == 1048576
GIB == 1073741824

\* format!("{:.0} MB", b / MIB): the quotient rounded to the nearest integer,
\* a tie to the even one.
FmtMB(bytes) ==
    LET q == bytes \div MIB
        r == bytes % MIB
        up == r * 2 > MIB \/ (r * 2 = MIB /\ q % 2 = 1)
    IN  Decimal(IF up THEN q + 1 ELSE q) \o <<" ", "M", "B">>

\* format!("{:.1} GB", b / GIB): the quotient rounded to the nearest tenth, a
\* tie to the even one.  The remainder is split so that no product leaves
\* 32 bits.
FmtGB(bytes) ==
    LET whole == bytes \div GIB
        rem == bytes % GIB
        hi == rem \div 1024
        lo == rem % 1024
        t == (hi * 10) \div MIB
        n == ((hi * 10) % MIB) * 1024 + lo * 10
        up == n * 2 > GIB \/ (n * 2 = GIB /\ t % 2 = 1)
        tenths == whole * 10 + t + (IF up THEN 1 ELSE 0)
    IN  Decimal(tenths \div 10) \o <<".", Digit(tenths % 10)>> \o <<" ", "G", "B">>

\* Faulty variant of fmt_bytes: b > GIB, so exactly 1 GiB is rendered in MB.
fmt_bytes_above(bytes) == IF bytes > GIB THEN FmtGB(bytes) ELSE FmtMB(bytes)

\* if b >= GIB { format!("{:.1} GB", b / GIB) } else { format!("{:.0} MB", b / MIB) }
fmt_bytes(bytes) == IF bytes >= GIB THEN FmtGB(bytes) ELSE FmtMB(bytes)

\* Option<T>: None is <<>>, Some(v) is <<v>>.
None == <<>>

Some(v) == <<v>>

\* The backends in the order detect_v_ram_best_effort queries them, each with
\* the source and scope it tags a reading with.
VRamBackends ==
    << [query |-> "nvml", source |-> <<"N", "V", "M", "L">>, scope |-> "per-process"],
       [query |-> "amdgpu", source |-> <<"a", "m", "d", "g", "p", "u", "-", "d", "e", "b", "u", "g", "f", "s">>, scope |-> "per-process"],
       [query |-> "drm", source |-> <<"L", "i", "n", "u", "x", " ", "D", "R", "M">>, scope |-> "device-wide"],
       [query |-> "dxgi", source |-> <<"D", "X", "G", "I">>, scope |-> "adapter-wide"],
       [query |-> "metal", source |-> <<"M", "e", "t", "a", "l">>, scope |-> "device-wide"] >>

\* Faulty variant of FirstHit: the last backend that yields a value wins.
RECURSIVE LastHit(_, _)
LastHit(probe, i) ==
    IF i > Len(VRamBackends) THEN 0
    ELSE IF LastHit(probe, i + 1) # 0 THEN LastHit(probe, i + 1)
    ELSE IF probe[VRamBackends[i].query] # None THEN i
    ELSE 0

\* The index of the first backend from i on that yields a value under probe
\* (a backend that is not compiled in yields None), 0 when none does.
RECURSIVE FirstHit(_, _)
FirstHit(probe, i) ==
    IF i > Len(VRamBackends) THEN 0
    ELSE IF probe[VRamBackends[i].query] # None THEN i
    ELSE FirstHit(probe, i + 1)

\* The queries detect_v_ram_best_effort issues under probe, in order.
VRamQueries(probe) ==
    LET hit == FirstHit(probe, 1)
        n == IF hit = 0 THEN Len(VRamBackends) ELSE hit
    IN  [i \in 1..n |-> VRamBackends[i].query]

detect_v_ram_best_effort(probe) ==
    LET hit == FirstHit(probe, 1)
    IN  IF hit = 0 THEN None
        ELSE Some([bytes |-> probe[VRamBackends[hit].query][1],
                   source |-> VRamBackends[hit].source,
                   scope |-> VRamBackends[hit].scope])

-----------------------------------------------------------------------------
(* Telemetry: what the host reports *)

\* One core as sysinfo reports it.
Core(brand, name) == [brand |-> brand, name |-> name]

\* What the OS, the GPU backends and the engine answer during one frame.
\* Percentages are thousandths of a percent, memory is bytes, fps is
\* thousandths of a frame per second.
HostEnvs ==
    << [ cpus |-> <<Core(<<" ", "Z", "e", "n", " ">>, <<"c", "p", "u", "0">>),
                    Core(<<" ", "Z", "e", "n", " ">>, <<"c", "p", "u", "1">>),
                    Core(<<" ", "Z", "e", "n", " ">>, <<"c", "p", "u", "2">>),
                    Core(<<" ", "Z", "e", "n", " ">>, <<"c", "p", "u", "3">>)>>,
         global_cpu |-> 37500,
         process |-> Some([memory |-> 314572800, cpu_usage |-> 250000]),
         fps |-> Some(60000),
         build |-> Some([app_name |-> "night-is-hell", app_version |-> "0.1.0", bevy_version |-> "0.17.3"]),
         backend |-> [name |-> "NVIDIA GeForce RTX", backend |-> "vulkan"],
         input_config |-> [system_info |-> "F3", gizmos_boxen |-> "F9"],
         probe |-> [nvml |-> Some(1610612736), amdgpu |-> None, drm |-> Some(52428800), dxgi |-> None, metal |-> None] ],
       [ cpus |-> <<Core(<<" ">>, <<" ", "c", "p", "u", "0">>), Core(<<"i", "7">>, <<"c", "p", "u", "1">>)>>,
         global_cpu |-> 100000,
         process |-> Some([memory |-> 52428800, cpu_usage |-> 900000]),
         fps |-> None,
         build |-> None,
         backend |-> [name |-> "AMD Radeon", backend |-> "dx12"],
         input_config |-> [system_info |-> "F4", gizmos_boxen |-> "F10"],
         probe |-> [nvml |-> None, amdgpu |-> None, drm |-> Some(1073741823), dxgi |-> Some(1073741824), metal |-> None] ],
       [ cpus |-> <<>>,
         global_cpu |-> 0,
         process |-> None,
         fps |-> Some(30000),
         build |-> None,
         backend |-> [name |-> "llvmpipe", backend |-> "webgpu"],
         input_config |-> [system_info |-> "F3", gizmos_boxen |-> "F9"],
         probe |-> [nvml |-> None, amdgpu |-> None, drm |-> None, dxgi |-> None, metal |-> None] ],
       [ cpus |-> <<Core(<<>>, <<" ">>)>>,
         global_cpu |-> 5000,
         process |-> Some([memory |-> 0, cpu_usage |-> -50000]),
         fps |-> Some(60000),
         build |-> Some([app_name |-> "night-is-hell", app_version |-> "0.1.0", bevy_version |-> "0.17.3"]),
         backend |-> [name |-> "Apple M2", backend |-> "metal"],
         input_config |-> [system_info |-> "F3", gizmos_boxen |-> "F9"],
         probe |-> [nvml |-> None, amdgpu |-> None, drm |-> None, dxgi |-> None, metal |-> Some(0)] ] >>

\* Frame times of the telemetry frames, in milliseconds.
TelemetryFrameTimes == {200, 300, 1200}

-----------------------------------------------------------------------------
(* Telemetry: the resources *)

SampleInterval == 500
PercentMin == 0
PercentMax == 100000

\* sysinfo::System::new(): nothing refreshed, no cores, no process known.
NewSystem == [cpus |-> <<>>, global_cpu |-> 0, process |-> None]

\* Faulty variant of RefreshCpuAll: the refresh is left out.
RefreshCpuAllSkipped(sys, h) == sys

\* System::refresh_cpu_all on a host reporting h
RefreshCpuAll(sys, h) == [sys EXCEPT !.cpus = h.cpus, !.global_cpu = h.global_cpu]

\* System::refresh_processes(ProcessesToUpdate::Some(&[pid]), _) on a host reporting h
RefreshProcesses(sys, h) == [sys EXCEPT !.process = h.process]

\* Timer::from_seconds(0.5, TimerMode::Repeating)
NewTimer == [duration |-> SampleInterval, elapsed |-> 0, times_finished_this_tick |-> 0]

\* Timer::tick of a repeating timer: the elapsed time wraps at the duration.
TimerTick(timer, dt) ==
    LET elapsed == timer.elapsed + dt
    IN  IF elapsed >= timer.duration
        THEN [timer EXCEPT !.elapsed = elapsed % timer.duration,
                           !.times_finished_this_tick = elapsed \div timer.duration]
        ELSE [timer EXCEPT !.elapsed = elapsed, !.times_finished_this_tick = 0]

\* Faulty variant of JustFinished: every tick counts as a firing.
JustFinishedAlways(timer) == TRUE

\* Timer::just_finished
JustFinished(timer) == timer.times_finished_this_tick > 0

\* SysStats::default
DefaultSysStats ==
    [ sys |-> NewSystem, cpu_all_percent |-> 0, app_cpu_percent |-> 0,
      app_mem_bytes |-> 0, timer |-> NewTimer ]

\* DebugSnapshot::default (derived)
DefaultSnapshot ==
    [ fps |-> 0, cpu_all_percent |-> 0, app_cpu_percent |-> 0, app_mem_bytes |-> 0,
      v_ram_label |-> <<>>, player_pos |-> Vec3(0, 0, 0), character_name |-> <<>>,
      app_name |-> "", app_ver |-> "", bevy_ver |-> "", backend_name |-> "",
      cpu_brand |-> <<>>, backend_str |-> "", key_debug_info |-> "", key_gizmos |-> "" ]

-----------------------------------------------------------------------------
(* Telemetry: the schedule DebugLogicComponent::build registers *)

\* (snap_perf, snap_build, snap_v_ram, snap_cpu_brand).chain()
Chain == <<"snap_perf", "snap_build", "snap_v_ram", "snap_cpu_brand">>

\* The systems of the Update schedule that run in a frame: poll_sys_info in
\* every state, the chain only in AppState::Preload.
Scheduled(preload) ==
    {"poll_sys_info"} \cup (IF preload THEN {Chain[i] : i \in DOMAIN Chain} ELSE {})

\* The systems that must have run in this frame before system name may run:
\* those before it in the chain.  poll_sys_info is ordered with none.
Before(name) == {Chain[i] : i \in {j \in DOMAIN Chain : \E k \in DOMAIN Chain : Chain[k] = name /\ j < k}}

\* System name may run next.
Ready(name) == name \in pending /\ Before(name) \cap pending = {}

\* Bookkeeping of one system run.
Ran(name) ==
    /\ Ready(name)
    /\ pending' = pending \ {name}
    /\ ran' = Append(ran, name)
    /\ UNCHANGED <<in_preload, overlay, frame_delta, host, frames>>

\* Faulty variant of Hidden: the visibility check is missing.
HiddenNever(state) == FALSE

\* if !debug_state.0 { return; }
Hidden(state) == ~state

-----------------------------------------------------------------------------
(* Telemetry: the systems *)

\* Faulty variant of ProcessReading: a missing process reads as fully busy.
ProcessReadingBusy(sys) ==
    IF sys.process = None THEN [memory |-> 0, cpu_usage |-> PercentMax] ELSE sys.process[1]

\* .map(|process| (process.memory(), process.cpu_usage())).unwrap_or((0, 0.0))
ProcessReading(sys) ==
    IF sys.process = None THEN [memory |-> 0, cpu_usage |-> 0] ELSE sys.process[1]

\* OnEnter(AppState::Preload): internal_sys_info, on a host reporting HostEnvs[h]
internal_sys_info(h) ==
    /\ ~in_preload
    /\ pending = {}
    /\ LET system == RefreshProcesses(RefreshCpuAll(NewSystem, HostEnvs[h]), HostEnvs[h])
           reading == ProcessReading(system)
       IN  sys_stats' = [sys_stats EXCEPT !.app_mem_bytes = reading.memory,
                                          !.app_cpu_percent = reading.cpu_usage,
                                          !.sys = system]
    /\ in_preload' = TRUE
    /\ calls' = <<"new_with_specifics", "refresh_cpu_all", "refresh_processes", "process">>
    /\ UNCHANGED <<overlay, snapshot, frame_delta, host, pending, ran, frames, since_fire>>

\* sys.cpus().len().max(1)
LogicalCores(sys) == IF Len(sys.cpus) > 1 THEN Len(sys.cpus) ELSE 1

\* (app_cpu_raw / logical).clamp(0.0, 100.0)
NormalizeAppCpu(app_cpu_raw, logical) == Clamp(RoundDiv(app_cpu_raw, logical), PercentMin, PercentMax)

\* The body of `if sys_stats.timer.tick(..).just_finished()`: one sample.
Sample(stats, h) ==
    LET sys == RefreshProcesses(RefreshCpuAll(stats.sys, h), h)
        reading == ProcessReading(sys)
    IN  [stats EXCEPT !.sys = sys,
                      !.cpu_all_percent = sys.global_cpu,
                      !.app_mem_bytes = reading.memory,
                      !.app_cpu_percent = NormalizeAppCpu(reading.cpu_usage, LogicalCores(sys))]

poll_sys_info ==
    /\ Ran("poll_sys_info")
    /\ IF Hidden(overlay)
       THEN /\ calls' = <<>>
            /\ UNCHANGED <<sys_stats, since_fire>>
       ELSE LET ticked == [sys_stats EXCEPT !.timer = TimerTick(sys_stats.timer, frame_delta)]
            IN  IF JustFinished(ticked.timer)
                THEN /\ sys_stats' = Sample(ticked, HostEnvs[host])
                     /\ calls' = <<"refresh_cpu_all", "refresh_processes", "global_cpu_usage", "process", "cpus">>
                     /\ since_fire' = 0
                ELSE /\ sys_stats' = ticked
                     /\ calls' = <<>>
                     /\ since_fire' = since_fire + frame_delta
    /\ UNCHANGED snapshot

\* diag.get(&FPS).and_then(|d| d.smoothed()).unwrap_or(0.0)
SmoothedFps(h) == IF h.fps = None THEN 0 ELSE h.fps[1]

snap_perf ==
    /\ Ran("snap_perf")
    /\ IF Hidden(overlay)
       THEN UNCHANGED snapshot
       ELSE snapshot' = [snapshot EXCEPT !.fps = SmoothedFps(HostEnvs[host]),
                                         !.cpu_all_percent = sys_stats.cpu_all_percent,
                                         !.app_cpu_percent = sys_stats.app_cpu_percent,
                                         !.app_mem_bytes = sys_stats.app_mem_bytes]
    /\ calls' = <<>>
    /\ UNCHANGED <<sys_stats, since_fire>>

\* if let Some(b) = build { .. } else { ("<app>", "?", "0.17.3") }
BuildStrings(build) ==
    IF build = None
    THEN [app_name |-> "<app>", app_version |-> "?", bevy_version |-> "0.17.3"]
    ELSE build[1]

\* Faulty variant of BackendLabel: the token is matched without regard to case.
BackendLabelAnyCase(token) ==
    CASE token \in {"vulkan", "Vulkan", "VULKAN"} -> "Vulkan"
      [] token \in {"gl", "Gl", "GL"} -> "OpenGL"
      [] token \in {"metal", "Metal", "METAL"} -> "Metal"
      [] token \in {"dx12", "Dx12", "DX12"} -> "DirectX12"
      [] token \in {"dx11", "Dx11", "DX11"} -> "DirectX11"
      [] OTHER -> "Unknown"

\* match backend.backend.to_str() { .. }
BackendLabel(token) ==
    CASE token = "vulkan" -> "Vulkan"
      [] token = "gl" -> "OpenGL"
      [] token = "metal" -> "Metal"
      [] token \in {"dx12", "DX12"} -> "DirectX12"
      [] token \in {"dx11", "DX11"} -> "DirectX11"
      [] OTHER -> "Unknown"

snap_build ==
    /\ Ran("snap_build")
    /\ IF Hidden(overlay)
       THEN UNCHANGED snapshot
       ELSE LET h == HostEnvs[host]
                b == BuildStrings(h.build)
            IN  snapshot' = [snapshot EXCEPT !.app_name = b.app_name,
                                             !.app_ver = b.app_version,
                                             !.bevy_ver = b.bevy_version,
                                             !.backend_name = h.backend.name,
                                             !.backend_str = BackendLabel(h.backend.backend),
                                             !.key_debug_info = h.input_config.system_info,
                                             !.key_gizmos = h.input_config.gizmos_boxen]
    /\ calls' = <<>>
    /\ UNCHANGED <<sys_stats, since_fire>>

\* format!("{} ({})", fmt_bytes(info.bytes), info.source), or "n/a"
VRamLabel(info) ==
    IF info = None THEN <<"n", "/", "a">>
    ELSE fmt_bytes(info[1].bytes) \o <<" ", "(">> \o info[1].source \o <<")">>

\* Faulty variant of snap_v_ram: the label is also written to character_name.
snap_v_ram_and_name ==
    /\ Ran("snap_v_ram")
    /\ IF Hidden(overlay)
       THEN /\ calls' = <<>>
            /\ UNCHANGED snapshot
       ELSE /\ snapshot' = [snapshot EXCEPT
                               !.v_ram_label = VRamLabel(detect_v_ram_best_effort(HostEnvs[host].probe)),
                               !.character_name = VRamLabel(detect_v_ram_best_effort(HostEnvs[host].probe))]
            /\ calls' = VRamQueries(HostEnvs[host].probe)
    /\ UNCHANGED <<sys_stats, since_fire>>

snap_v_ram ==
    /\ Ran("snap_v_ram")
    /\ IF Hidden(overlay)
       THEN /\ calls' = <<>>
            /\ UNCHANGED snapshot
       ELSE /\ snapshot' = [snapshot EXCEPT
                               !.v_ram_label = VRamLabel(detect_v_ram_best_effort(HostEnvs[host].probe))]
            /\ calls' = VRamQueries(HostEnvs[host].probe)
    /\ UNCHANGED <<sys_stats, since_fire>>

\* Faulty variant of BrandResolved: the cached brand is not checked.
BrandResolvedNever(snap) == FALSE

\* if !snap.cpu_brand.is_empty() { return; }
BrandResolved(snap) == snap.cpu_brand # <<>>

\* Faulty variant of FirstBrand: the brand is tested without being trimmed.
RECURSIVE FirstBrandUntrimmed(_, _)
FirstBrandUntrimmed(cpus, i) ==
    IF i > Len(cpus) THEN 0
    ELSE IF cpus[i].brand # <<>> THEN i
    ELSE FirstBrandUntrimmed(cpus, i + 1)

\* The index of the first core from i on whose trimmed brand is not empty, 0
\* when there is none: .map(|c| c.brand().trim()).find(|b| !b.is_empty())
RECURSIVE FirstBrand(_, _)
FirstBrand(cpus, i) ==
    IF i > Len(cpus) THEN 0
    ELSE IF Trim(cpus[i].brand) # <<>> THEN i
    ELSE FirstBrand(cpus, i + 1)

\* The brand snap_cpu_brand stores when it resolves it from cpus.
ResolveCpuBrand(cpus) ==
    LET hit == FirstBrand(cpus, 1)
    IN  IF hit # 0 THEN Trim(cpus[hit].brand)
        ELSE IF cpus # <<>> THEN Trim(cpus[1].name)
        ELSE <<"U", "n", "k", "n", "o", "w", "n", " ", "C", "P", "U">>

snap_cpu_brand ==
    /\ Ran("snap_cpu_brand")
    /\ IF Hidden(overlay) \/ BrandResolved(snapshot)
       THEN /\ calls' = <<>>
            /\ UNCHANGED snapshot
       ELSE /\ snapshot' = [snapshot EXCEPT !.cpu_brand = ResolveCpuBrand(sys_stats.sys.cpus)]
            /\ calls' = IF FirstBrand(sys_stats.sys.cpus, 1) # 0 THEN <<"cpus">> ELSE <<"cpus", "cpus">>
    /\ UNCHANGED <<sys_stats, since_fire>>

\* The engine begins a frame lasting dt on a host reporting HostEnvs[h].
BeginFrame(dt, h) ==
    /\ pending = {}
    /\ frames < MaxFrames
    /\ frame_delta' = dt
    /\ host' = h
    /\ pending' = Scheduled(in_preload)
    /\ ran' = <<>>
    /\ calls' = <<>>
    /\ frames' = frames + 1
    /\ UNCHANGED <<in_preload, overlay, sys_stats, snapshot, since_fire>>

\* The overlay is shown or hidden (outside these systems), between frames.
ToggleOverlay ==
    /\ pending = {}
    /\ overlay' = ~overlay
    /\ UNCHANGED <<in_preload, sys_stats, snapshot, frame_delta, host, pending, ran, calls, frames, since_fire>>

-----------------------------------------------------------------------------
(* The specifications *)

\* The world and the resources after startup.
Startup ==
    /\ cameras = <<[orbit |-> SetupOrbit, transform |-> SetupTransform]>>
    /\ targets = <<SetupPlayer>>
    /\ motion_unread = <<>>
    /\ wheel_unread = <<>>
    /\ ticks = 0
    /\ cam_prev = cameras
    /\ cam_last = [op |-> "setup", targets |-> 1, pressed |-> FALSE, delta |-> Vec2(0, 0), scroll |-> 0, dt |-> 0]
    /\ in_preload = FALSE
    /\ overlay = FALSE
    /\ sys_stats = DefaultSysStats
    /\ snapshot = DefaultSnapshot
    /\ frame_delta = 0
    /\ host = 1
    /\ pending = {}
    /\ ran = <<>>
    /\ calls = <<>>
    /\ frames = 0
    /\ since_fire = 0

Init ==
    /\ Startup
    /\ arg = None
    /\ result = None

\* The orbit camera controller and the world around it.
Next ==
    \/ /\ \E input \in FrameInputs, dt \in FrameTimes, retained \in BOOLEAN :
             Tick(input, dt, retained)
       /\ UNCHANGED <<tel_vars, fn_vars>>
    \/ SpawnPlayer /\ UNCHANGED <<tel_vars, fn_vars>>
    \/ DespawnPlayer /\ UNCHANGED <<tel_vars, fn_vars>>

Spec == Init /\ [][Next]_vars

\* The telemetry systems under every order the schedule allows.
TelemetryNext ==
    \/ (\E h \in DOMAIN HostEnvs : internal_sys_info(h)) /\ UNCHANGED <<cam_vars, fn_vars>>
    \/ (\E dt \in TelemetryFrameTimes, h \in DOMAIN HostEnvs : BeginFrame(dt, h)) /\ UNCHANGED <<cam_vars, fn_vars>>
    \/ ToggleOverlay /\ UNCHANGED <<cam_vars, fn_vars>>
    \/ poll_sys_info /\ UNCHANGED <<cam_vars, fn_vars>>
    \/ snap_perf /\ UNCHANGED <<cam_vars, fn_vars>>
    \/ snap_build /\ UNCHANGED <<cam_vars, fn_vars>>
    \/ snap_v_ram /\ UNCHANGED <<cam_vars, fn_vars>>
    \/ snap_cpu_brand /\ UNCHANGED <<cam_vars, fn_vars>>

TelemetrySpec == Init /\ [][TelemetryNext]_vars

\* Every way the five backends can answer: each yields nothing (also when it
\* is not compiled in) or a byte count, here one that tells the backends apart.
VRamProbes ==
    { [nvml |-> n, amdgpu |-> a, drm |-> d, dxgi |-> x, metal |-> m] :
        n \in {None, Some(1610612736)}, a \in {None, Some(314572800)},
        d \in {None, Some(52428800)}, x \in {None, Some(1073741824)}, m \in {None, Some(0)} }

\* Backend tokens: those wgpu's Backend::to_str returns, those the match
\* names, and other spellings.
BackendTokens ==
    { "noop", "vulkan", "metal", "dx12", "gl", "webgpu",
      "DX12", "dx11", "DX11",
      "VULKAN", "Vulkan", "GL", "Metal", "METAL", "Dx12", "Dx11", "dx10", "opengl", "directx12", "" }

\* Byte counts: zero, the MiB and GiB boundaries and their neighbours, ties
\* of the rounding, and ordinary readings, up to 2 GiB.
ByteCounts ==
    { 0, 1, 524288, 524289, 1048575, 1048576, 1572864, 2621440, 52428800, 314572800,
      1073217536, 1073741823, 1073741824, 1073741825, 1127428915, 1127428916, 1181116006,
      1234803097, 1610612736, 2040109465, 2147483647 }

\* Smoothness values (1/s) and frame times (ms) of the interpolation factor:
\* the three of setup_test_scene and a slow one; frames from 1 ms to 20 s.
SmoothInputs == [smoothness : {1, 10, 12, 14}, dt : {1, 16, 100, 250, 500, 2000, 4000, 20000}]

\* What sysinfo can report of the cores: none, brands with and without
\* blanks around them, blank brands before a brand, and no brand at all with
\* a name or a blank name.
CpuLists ==
    { <<>>,
      <<Core(<<" ", "Z", "e", "n", " ">>, <<"c", "p", "u", "0">>)>>,
      <<Core(<<"A">>, <<"x">>), Core(<<"B">>, <<"y">>)>>,
      <<Core(<<"I", "n", " ", "t", "e", "l", "\t">>, <<"c", "p", "u", "0">>)>>,
      <<Core(<<" ">>, <<" ", "c", "p", "u", "0">>), Core(<<"i", "7">>, <<"c", "p", "u", "1">>)>>,
      <<Core(<<"\t", " ">>, <<"n", "1">>), Core(<<>>, <<"n", "2">>), Core(<<" ", "B", " ">>, <<"n", "3">>)>>,
      <<Core(<<>>, <<"c", "p", "u", "0", " ">>), Core(<<"\t">>, <<"c", "p", "u", "1">>)>>,
      <<Core(<<" ">>, <<" ", "c", "p", "u", " ", "0", " ">>)>>,
      <<Core(<<>>, <<" ">>)>>,
      <<Core(<<>>, <<>>), Core(<<" ">>, <<"c", "p", "u", "1">>)>> }

\* The calls of the pure functions on their own, by function.
FunctionInputs ==
    [fn : {"detect_v_ram_best_effort"}, value : VRamProbes]
        \cup [fn : {"BackendLabel"}, value : BackendTokens]
        \cup [fn : {"fmt_bytes"}, value : ByteCounts]
        \cup [fn : {"SmoothFactor"}, value : SmoothInputs]
        \cup [fn : {"ResolveCpuBrand"}, value : CpuLists]

\* The call of function name returns value.
Return(name, value) ==
    /\ arg.fn = name
    /\ result = None
    /\ result' = Some(value)
    /\ UNCHANGED <<arg, cam_vars, tel_vars>>

CallDetectVRam ==
    Return("detect_v_ram_best_effort",
           [info |-> detect_v_ram_best_effort(arg.value), queries |-> VRamQueries(arg.value)])

CallBackendLabel == Return("BackendLabel", BackendLabel(arg.value))

CallFmtBytes == Return("fmt_bytes", fmt_bytes(arg.value))

CallSmoothFactor == Return("SmoothFactor", SmoothFactor(arg.value.smoothness, arg.value.dt))

CallResolveCpuBrand == Return("ResolveCpuBrand", ResolveCpuBrand(arg.value))

FunctionInit ==
    /\ Startup
    /\ arg \in FunctionInputs
    /\ result = None

FunctionNext ==
    \/ CallDetectVRam
    \/ CallBackendLabel
    \/ CallFmtBytes
    \/ CallSmoothFactor
    \/ CallResolveCpuBrand

\* The pure functions, each called once on an argument of FunctionInputs.
FunctionSpec == FunctionInit /\ [][FunctionNext]_vars

\* Orbit cameras a scene can hold besides the one of setup_test_scene: one
\* more with the same fields, and one that differs in every field.
SceneCameras ==
    { [orbit |-> SetupOrbit, transform |-> SetupTransform],
      [orbit |-> [ radius |-> 5000, yaw |-> 1000, pitch |-> 200,
                   target_radius |-> 4000, target_yaw |-> 1500, target_pitch |-> 1000,
                   rotation_smoothness |-> 5, zoom_smoothness |-> 3, position_smoothness |-> 8,
                   follow_offset |-> Vec3(0, 0, 0) ],
       transform |-> LookAt(Vec3(3000, 2000, -4000), Vec3(0, 500, 0))] }

\* The scene gains an orbit camera before the first frame.
SpawnCamera(cam) ==
    /\ ticks = 0
    /\ Len(cameras) < MaxCameras
    /\ cameras' = Append(cameras, cam)
    /\ cam_prev' = cameras'
    /\ UNCHANGED <<targets, motion_unread, wheel_unread, ticks, cam_last>>

\* The frame times of a scene that runs smoothly: those of FrameTimes
\* between a sixtieth and a tenth of a second.
SmoothFrameTimes == {dt \in FrameTimes : 0 < dt /\ dt <= 100}

\* A scene of several orbit cameras and the one Player of setup_test_scene.
CamerasNext ==
    \/ (\E cam \in SceneCameras : SpawnCamera(cam)) /\ UNCHANGED <<tel_vars, fn_vars>>
    \/ (\E input \in FrameInputs, dt \in SmoothFrameTimes : Tick(input, dt, FALSE)) /\ UNCHANGED <<tel_vars, fn_vars>>

CamerasSpec == Init /\ [][CamerasNext]_vars

\* A left drag of 100 pixels to the right, delivered as one message or as two.
DragInputs ==
    { [pressed |-> TRUE, motion |-> <<Vec2(100, 0)>>, wheel |-> <<>>],
      [pressed |-> TRUE, motion |-> <<Vec2(60, 0), Vec2(40, 0)>>, wheel |-> <<>>] }

\* A frame without input: the button is up and no message arrives.
NoInput == [pressed |-> FALSE, motion |-> <<>>, wheel |-> <<>>]

\* The first frame after setup_test_scene delivers the drag.
Drag(input, dt) ==
    /\ ticks = 0
    /\ orbit_camera_controls(input, dt, FALSE)
    /\ ticks' = 1

\* A later frame, of positive length, without input.  The Update schedule runs
\* the system in every frame; the frame counter stops at its bound.
Settle(dt) ==
    /\ ticks >= 1
    /\ dt > 0
    /\ orbit_camera_controls(NoInput, dt, FALSE)
    /\ ticks' = IF ticks < MaxTicks THEN ticks + 1 ELSE ticks

\* The drag scenario: one frame of drag, then frames without input.
DragNext ==
    \/ (\E input \in DragInputs, dt \in FrameTimes : Drag(input, dt)) /\ UNCHANGED <<tel_vars, fn_vars>>
    \/ (\E dt \in FrameTimes : Settle(dt)) /\ UNCHANGED <<tel_vars, fn_vars>>

\* The engine keeps running frames: a frame without input that changes the
\* state is eventually run.
DragSpec ==
    /\ Init
    /\ [][DragNext]_vars
    /\ WF_vars((\E dt \in FrameTimes : Settle(dt)) /\ UNCHANGED <<tel_vars, fn_vars>>)

-----------------------------------------------------------------------------
(* Properties of the orbit camera controller, checked under Spec *)

\* A step that is one run of orbit_camera_controls.
ControllerTick == ticks' = ticks + 1

InRange(v, lo, hi) == lo <= v /\ v <= hi

\* C1: when the number of follow targets is zero or at least two, a run of
\* orbit_camera_controls leaves every OrbitCamera field and every camera
\* Transform unchanged, whatever the input, button state and frame time.
C1_NoSingleTargetNoUpdate ==
    [][(ControllerTick /\ Len(targets) # 1) => cameras' = cameras]_vars

\* A run with two targets, the button held, motion, scroll and a positive
\* frame time all present, has returned early.
C1_Witness ==
    /\ cam_last.op = "return"
    /\ cam_last.targets = 2
    /\ cam_last.pressed
    /\ cam_last.delta.x # 0 /\ cam_last.delta.y # 0
    /\ cam_last.scroll # 0
    /\ cam_last.dt > 0
    /\ cameras = cam_prev

\* C2: from the scene of setup_test_scene, after any sequence of runs,
\* target_pitch of every OrbitCamera is within [-1.2, 1.2].
C2_TargetPitchClamped ==
    \A i \in DOMAIN cameras : InRange(cameras[i].orbit.target_pitch, PitchMin, PitchMax)

\* A drag that would take target_pitch below -1.2 has left it at -1.2.
C2_Witness ==
    /\ cam_last.op = "update"
    /\ cam_last.pressed
    /\ cam_prev[1].orbit.target_pitch - cam_last.delta.y * RotateSensitivity < PitchMin
    /\ cameras[1].orbit.target_pitch = PitchMin

\* C3: from the scene of setup_test_scene, after any sequence of runs with
\* any cumulative scroll input, target_radius of every OrbitCamera is within
\* [3.0, 18.0].
C3_TargetRadiusClamped ==
    \A i \in DOMAIN cameras : InRange(cameras[i].orbit.target_radius, RadiusMin, RadiusMax)

\* A scroll that would take target_radius above 18 has left it at 18.
C3_Witness ==
    /\ cam_last.op = "update"
    /\ cam_prev[1].orbit.target_radius - RoundDiv(cam_last.scroll * ZoomSensitivity, Milli) > RadiusMax
    /\ cameras[1].orbit.target_radius = RadiusMax

Approaches(old, cur, goal) ==
    /\ Abs(cur - goal) <= Abs(old - goal)
    /\ (old - goal) * (cur - goal) >= 0

\* C10: with exactly one follow target, positive smoothness and zero motion
\* and scroll input, a run moves yaw, pitch and radius monotonically toward
\* their targets: the distance does not grow and the value does not cross
\* the target.
C10_MonotoneApproach ==
    [][(ControllerTick /\ cam_last'.op = "update"
          /\ cam_last'.delta = Vec2(0, 0) /\ cam_last'.scroll = 0)
       => \A i \in DOMAIN cameras :
            /\ cameras[i].orbit.rotation_smoothness > 0
            /\ cameras[i].orbit.zoom_smoothness > 0
            /\ cameras'[i].orbit.target_yaw = cameras[i].orbit.target_yaw
            /\ cameras'[i].orbit.target_pitch = cameras[i].orbit.target_pitch
            /\ cameras'[i].orbit.target_radius = cameras[i].orbit.target_radius
            /\ Approaches(cameras[i].orbit.yaw, cameras'[i].orbit.yaw, cameras[i].orbit.target_yaw)
            /\ Approaches(cameras[i].orbit.pitch, cameras'[i].orbit.pitch, cameras[i].orbit.target_pitch)
            /\ Approaches(cameras[i].orbit.radius, cameras'[i].orbit.radius, cameras[i].orbit.target_radius)]_vars

\* A run without input has taken yaw, pitch and radius strictly closer to
\* targets they had not reached, without reaching them.
C10_Witness ==
    /\ cam_last.op = "update"
    /\ cam_last.delta = Vec2(0, 0) /\ cam_last.scroll = 0
    /\ LET old == cam_prev[1].orbit
           cur == cameras[1].orbit
       IN  /\ 0 < Abs(cur.yaw - cur.target_yaw) /\ Abs(cur.yaw - cur.target_yaw) < Abs(old.yaw - old.target_yaw)
           /\ 0 < Abs(cur.pitch - cur.target_pitch) /\ Abs(cur.pitch - cur.target_pitch) < Abs(old.pitch - old.target_pitch)
           /\ 0 < Abs(cur.radius - cur.target_radius) /\ Abs(cur.radius - cur.target_radius) < Abs(old.radius - old.target_radius)

\* C11: from the scene of setup_test_scene (radius 8, yaw 0, pitch -0.3) with
\* one follow target, the frame with the left button held and an accumulated
\* motion of dx = 100 sets target_yaw to -0.5; under continued frames of
\* positive length without input, yaw eventually comes within the resolution
\* of the arithmetic (0.002) of -0.5 and stays there.
C11_DragConverges ==
    /\ [][(ticks = 0 /\ ticks' = 1) => cameras'[1].orbit.target_yaw = -500]_vars
    /\ <>[](ticks >= 1 => /\ cameras[1].orbit.target_yaw = -500
                          /\ Abs(cameras[1].orbit.yaw - (-500)) <= 2)

\* After the drag, a frame without input has brought yaw from farther away
\* to within the resolution of -0.5.
C11_Witness ==
    /\ ticks >= 2
    /\ cam_last.op = "update"
    /\ cam_last.delta = Vec2(0, 0)
    /\ cameras[1].orbit.target_yaw = -500
    /\ Abs(cam_prev[1].orbit.yaw - (-500)) > 2
    /\ Abs(cameras[1].orbit.yaw - (-500)) <= 2

\* The targets orbit written by a run are those the messages of one frame,
\* input, give from the targets of before.
FromOneFrame(before, after, input) ==
    /\ after.target_yaw = NewTargetYaw(before, input.pressed, MotionDelta(input.motion))
    /\ after.target_pitch = NewTargetPitch(before, input.pressed, MotionDelta(input.motion))
    /\ after.target_radius = NewTargetRadius(before, ScrollDelta(input.wheel))

\* C12: pointer-motion and scroll messages are drained on every run, also on
\* a run that performs no update, so a delta delivered during one frame is
\* never applied to target_yaw, target_pitch or target_radius in a later one:
\* what a run writes to the targets follows from the messages of its own
\* frame alone.
C12_DeltaNeverAppliedLater ==
    [][(ControllerTick /\ cam_last'.op = "update")
       => \A i \in DOMAIN cameras :
            \E input \in FrameInputs :
                /\ input.pressed = cam_last'.pressed
                /\ FromOneFrame(cameras[i].orbit, cameras'[i].orbit, input)]_vars

\* The value v held to the interval from lo to hi.
Held(v, lo, hi) == IF v <= lo THEN lo ELSE IF v >= hi THEN hi ELSE v

\* C20: in a run with exactly one follow target, with dx, dy the motion and
\* s the scroll the run has read: if the left button is held, target_yaw
\* decreases by 0.005*dx and target_pitch becomes target_pitch - 0.005*dy
\* held to [-1.2, 1.2]; if it is not held, both are unchanged whatever the
\* motion; target_radius becomes target_radius - 0.6*s held to [3, 18] when
\* s is not zero and is unchanged otherwise, whatever the button.
C20_InputGating ==
    [][(ControllerTick /\ cam_last'.op = "update")
       => \A i \in DOMAIN cameras :
            LET before == cameras[i].orbit
                after == cameras'[i].orbit
                dx == cam_last'.delta.x
                dy == cam_last'.delta.y
                scroll == cam_last'.scroll
            IN  /\ cam_last'.pressed =>
                      /\ after.target_yaw = before.target_yaw - 5 * dx
                      /\ after.target_pitch = Held(before.target_pitch - 5 * dy, -1200, 1200)
                /\ ~cam_last'.pressed =>
                      /\ after.target_yaw = before.target_yaw
                      /\ after.target_pitch = before.target_pitch
                /\ scroll # 0 =>
                      /\ (scroll * 6) % 10 = 0
                      /\ after.target_radius = Held(before.target_radius - (scroll * 6) \div 10, 3000, 18000)
                /\ scroll = 0 => after.target_radius = before.target_radius]_vars

\* A run has read motion and scroll with the button up: target_yaw and
\* target_pitch are those of before, target_radius has changed.
C20_Witness ==
    /\ cam_last.op = "update"
    /\ ~cam_last.pressed
    /\ cam_last.delta.x # 0
    /\ cam_last.scroll # 0
    /\ cameras[1].orbit.target_yaw = cam_prev[1].orbit.target_yaw
    /\ cameras[1].orbit.target_pitch = cam_prev[1].orbit.target_pitch
    /\ cameras[1].orbit.target_radius # cam_prev[1].orbit.target_radius

\* C21: with several orbit cameras and exactly one follow target, a run
\* updates every camera, each from the same accumulated motion and scroll and
\* the same target position: the new state of a camera follows from its own
\* previous state and the shared inputs alone, so cameras with equal state
\* stay equal, and the first camera does not consume the input.
C21_CamerasIndependent ==
    [][(ControllerTick /\ cam_last'.op = "update")
       => /\ DOMAIN cameras' = DOMAIN cameras
          /\ \A i \in DOMAIN cameras :
                /\ cameras'[i] = UpdateCamera(cameras[i], targets[1], cam_last'.pressed,
                                              cam_last'.delta, cam_last'.scroll, cam_last'.dt)
                /\ cam_last'.pressed =>
                      cameras'[i].orbit.target_yaw = cameras[i].orbit.target_yaw - 5 * cam_last'.delta.x
                /\ cameras'[i].transform.forward
                      = Vec3Sub(Vec3Add(targets[1], cameras[i].orbit.follow_offset), cameras'[i].transform.translation)
          /\ \A i, j \in DOMAIN cameras : cameras[i] = cameras[j] => cameras'[i] = cameras'[j]]_vars

\* A run with drag, scroll and a positive frame time has updated two cameras
\* of different state: the second camera's target_yaw has moved by the same
\* 0.005*dx as the first's, and its radius target has moved too.
C21_Witness ==
    /\ Len(cameras) = 2
    /\ cam_last.op = "update"
    /\ cam_last.pressed /\ cam_last.delta.x # 0 /\ cam_last.scroll # 0 /\ cam_last.dt > 0
    /\ cam_prev[1] # cam_prev[2]
    /\ cameras[1].orbit.target_yaw = cam_prev[1].orbit.target_yaw - 5 * cam_last.delta.x
    /\ cameras[2].orbit.target_yaw = cam_prev[2].orbit.target_yaw - 5 * cam_last.delta.x
    /\ cameras[2].orbit.target_radius # cam_prev[2].orbit.target_radius
    /\ cameras[2].orbit.yaw # cam_prev[2].orbit.yaw

-----------------------------------------------------------------------------
(* Properties of the telemetry pipeline, checked under TelemetrySpec *)

\* A step that is one run of the telemetry system name.
SystemRun(name) == ran' = Append(ran, name)

\* The last system run of the current frame is name.
LastRan(name) == ran # <<>> /\ ran[Len(ran)] = name

\* C5: in every reachable state, also right after the initial reading of
\* internal_sys_info, SysStats.app_cpu_percent and its copy in DebugSnapshot
\* are the process CPU usage divided by the logical core count (minimum 1)
\* and lie in [0, 100], whatever the backend reports.
C5_AppCpuNormalized ==
    /\ sys_stats.app_cpu_percent
          = NormalizeAppCpu(ProcessReading(sys_stats.sys).cpu_usage, LogicalCores(sys_stats.sys))
    /\ InRange(sys_stats.app_cpu_percent, PercentMin, PercentMax)
    /\ InRange(snapshot.app_cpu_percent, PercentMin, PercentMax)

\* C6: on a tick where DebugOverlayState is false no telemetry work happens:
\* poll_sys_info leaves SysStats (its timer included) unchanged, the four
\* builders leave DebugSnapshot unchanged, and no backend is queried.
C6_HiddenNoWork ==
    [][(~overlay /\ \E name \in Scheduled(TRUE) : SystemRun(name))
       => (sys_stats' = sys_stats /\ snapshot' = snapshot /\ calls' = <<>>)]_vars

\* A whole frame of 1.2 s has run hidden, in Preload, with the brand unresolved.
C6_Witness ==
    /\ ~overlay
    /\ in_preload
    /\ pending = {}
    /\ Len(ran) = 5
    /\ frame_delta >= SampleInterval
    /\ snapshot = DefaultSnapshot

\* The frame time ticked into the timer since it last fired, this frame's
\* included, as poll_sys_info is about to run.
SinceLastFiring == since_fire + frame_delta

\* One sample's backend calls.
OneSample == <<"refresh_cpu_all", "refresh_processes", "global_cpu_usage", "process", "cpus">>

ReadingsUnchanged ==
    /\ sys_stats'.cpu_all_percent = sys_stats.cpu_all_percent
    /\ sys_stats'.app_cpu_percent = sys_stats.app_cpu_percent
    /\ sys_stats'.app_mem_bytes = sys_stats.app_mem_bytes
    /\ sys_stats'.sys = sys_stats.sys

\* C7 as stated: on a visible tick where the frame time accumulated since the
\* last firing is below 0.5 s no sample is taken, and where it reaches 0.5 s
\* exactly one is.
C7_AsStated ==
    [][(overlay /\ SystemRun("poll_sys_info"))
       => IF SinceLastFiring < SampleInterval
          THEN ReadingsUnchanged /\ calls' = <<>>
          ELSE calls' = OneSample]_vars

\* C7, amended: the timer keeps the remainder of the interval it fired in.  On
\* a visible tick where the timer's elapsed time (that remainder plus the
\* frame times ticked in since) plus this frame's time is below 0.5 s no
\* sample is taken and no refresh issued; where it reaches 0.5 s exactly one
\* sample is taken, even if it spans several intervals.
C7_SampleOnlyWhenTimerFires ==
    [][(overlay /\ SystemRun("poll_sys_info"))
       => IF sys_stats.timer.elapsed + frame_delta < SampleInterval
          THEN ReadingsUnchanged /\ calls' = <<>>
          ELSE /\ calls' = OneSample
               /\ sys_stats'.cpu_all_percent = HostEnvs[host].global_cpu
               /\ sys_stats'.sys.process = HostEnvs[host].process]_vars

\* A frame of 1.2 s has spanned two intervals and one sample was taken; the
\* timer keeps 0.2 s.
C7_Witness ==
    /\ overlay
    /\ LastRan("poll_sys_info")
    /\ sys_stats.timer.times_finished_this_tick = 2
    /\ sys_stats.timer.elapsed > 0
    /\ calls = OneSample

\* C8: within every frame the telemetry systems run in the declared
\* sequence poll_sys_info, snap_perf, snap_build, snap_v_ram, snap_cpu_brand:
\* no schedule runs a later step before an earlier one.
C8_DeclaredSequence ==
    LET declared == <<"poll_sys_info">> \o Chain
    IN  \A i \in DOMAIN ran : ran[i] = declared[i]

\* C9: once DebugSnapshot.cpu_brand is non-empty, no later step, with
\* whatever per-core data the backend reports, changes it.
C9_BrandCached ==
    [][snapshot.cpu_brand # <<>> => snapshot'.cpu_brand = snapshot.cpu_brand]_vars

\* snap_cpu_brand has run visibly on a handle whose cores would now resolve
\* to another brand than the stored one.
C9_Witness ==
    /\ overlay
    /\ LastRan("snap_cpu_brand")
    /\ snapshot.cpu_brand # <<>>
    /\ sys_stats.sys.cpus # <<>>
    /\ ResolveCpuBrand(sys_stats.sys.cpus) # snapshot.cpu_brand

\* C13: if the backend cannot find the current process, the initial reading
\* of internal_sys_info and every sample of poll_sys_info store
\* app_mem_bytes = 0 and app_cpu_percent = 0.0 and complete normally; the
\* refreshed handle, and on a sample the global CPU reading, is still stored.
C13_ProcessNotFound ==
    [][/\ (~in_preload /\ in_preload' /\ sys_stats'.sys.process = None)
            => /\ sys_stats'.app_mem_bytes = 0
               /\ sys_stats'.app_cpu_percent = 0
               /\ \E h \in DOMAIN HostEnvs :
                     sys_stats'.sys = RefreshProcesses(RefreshCpuAll(NewSystem, HostEnvs[h]), HostEnvs[h])
       /\ (SystemRun("poll_sys_info") /\ calls' = OneSample /\ HostEnvs[host].process = None)
            => /\ sys_stats'.app_mem_bytes = 0
               /\ sys_stats'.app_cpu_percent = 0
               /\ sys_stats'.cpu_all_percent = HostEnvs[host].global_cpu
               /\ sys_stats'.sys.process = None]_vars

\* A sample has not found the process: the readings are zero, while the
\* snapshot still shows the readings of an earlier sample that had found it.
C13_Witness ==
    /\ LastRan("poll_sys_info")
    /\ calls = OneSample
    /\ HostEnvs[host].process = None
    /\ sys_stats.sys.process = None
    /\ sys_stats.app_mem_bytes = 0
    /\ sys_stats.app_cpu_percent = 0
    /\ sys_stats.cpu_all_percent = HostEnvs[host].global_cpu
    /\ snapshot.app_mem_bytes > 0
    /\ snapshot.cpu_all_percent # sys_stats.cpu_all_percent

\* C18: the CPU brand is resolved exactly once: with the overlay visible and
\* whatever the cores report, blank brands and names included, the run of
\* snap_cpu_brand that scans the cores leaves cpu_brand non-empty, so the
\* scan is executed in at most one frame and every later run is a no-op.
C18_ResolvedOnce ==
    [][(overlay /\ SystemRun("snap_cpu_brand") /\ snapshot.cpu_brand = <<>>)
       => (calls' # <<>> /\ snapshot'.cpu_brand # <<>>)]_vars

\* The fields of DebugSnapshot each builder is said to write.
Writes(name) ==
    CASE name = "snap_perf" -> {"fps", "cpu_all_percent", "app_cpu_percent", "app_mem_bytes"}
      [] name = "snap_build" -> {"app_name", "app_ver", "bevy_ver", "backend_name", "backend_str",
                                 "key_debug_info", "key_gizmos"}
      [] name = "snap_v_ram" -> {"v_ram_label"}
      [] name = "snap_cpu_brand" -> {"cpu_brand"}

Builders == {"snap_perf", "snap_build", "snap_v_ram", "snap_cpu_brand"}

\* C22: the four builders write pairwise disjoint fields of DebugSnapshot: a
\* run of a builder changes no field but its own (snap_perf: fps,
\* cpu_all_percent, app_cpu_percent, app_mem_bytes; snap_build: app_name,
\* app_ver, bevy_ver, backend_name, backend_str, key_debug_info, key_gizmos;
\* snap_v_ram: v_ram_label; snap_cpu_brand: cpu_brand), none changes
\* player_pos or character_name, and none changes SysStats.
C22_DisjointWrites ==
    /\ \A a, b \in Builders : a # b => Writes(a) \cap Writes(b) = {}
    /\ \A a \in Builders : Writes(a) \subseteq DOMAIN DefaultSnapshot \ {"player_pos", "character_name"}
    /\ [][\A name \in Builders :
            SystemRun(name) =>
                /\ sys_stats' = sys_stats
                /\ \A field \in DOMAIN snapshot \ Writes(name) : snapshot'[field] = snapshot[field]]_vars

\* A visible frame has run to its end and every builder has written its
\* fields: all of them differ from the defaults, but for player_pos and
\* character_name.
C22_Witness ==
    /\ overlay
    /\ pending = {}
    /\ Len(ran) = 5
    /\ snapshot.fps # 0
    /\ snapshot.app_mem_bytes # 0
    /\ snapshot.app_name # ""
    /\ snapshot.backend_str # ""
    /\ snapshot.v_ram_label # <<>>
    /\ snapshot.cpu_brand # <<>>
    /\ snapshot.player_pos = DefaultSnapshot.player_pos
    /\ snapshot.character_name = DefaultSnapshot.character_name

\* The calls that read CPU or process counters from the handle.
CounterReads == {"global_cpu_usage", "process", "cpus"}

\* In the calls of one run every read of a counter comes after a CPU refresh
\* and a refresh of the process, with no new handle made in between.
RefreshedBeforeRead(trace) ==
    \A k \in DOMAIN trace :
        trace[k] \in CounterReads =>
            \E i, j \in 1..(k - 1) :
                /\ trace[i] = "refresh_cpu_all"
                /\ trace[j] = "refresh_processes"
                /\ \A n \in 1..(k - 1) : trace[n] = "new_with_specifics" => (n < i /\ n < j)

\* The handle sys holds what a host reporting h answers to the two refreshes.
FreshFrom(sys, h) ==
    /\ sys.cpus = h.cpus
    /\ sys.global_cpu = h.global_cpu
    /\ sys.process = h.process

\* C23: every read of CPU or process counters from the metrics handle is
\* preceded, in the same run and on the same handle, by a CPU refresh and a
\* refresh of the current process: in the initial reading of
\* internal_sys_info and in every sample of poll_sys_info, also when
\* poll_sys_info runs before internal_sys_info has installed its handle.
C23_RefreshBeforeRead ==
    [][/\ (~in_preload /\ in_preload')
            => /\ RefreshedBeforeRead(calls')
               /\ \E h \in DOMAIN HostEnvs :
                     /\ FreshFrom(sys_stats'.sys, HostEnvs[h])
                     /\ sys_stats'.app_mem_bytes = ProcessReading([process |-> HostEnvs[h].process]).memory
       /\ SystemRun("poll_sys_info")
            => /\ RefreshedBeforeRead(calls')
               /\ (\E k \in DOMAIN calls' : calls'[k] \in CounterReads)
                     => /\ FreshFrom(sys_stats'.sys, HostEnvs[host])
                        /\ sys_stats'.cpu_all_percent = HostEnvs[host].global_cpu
                        /\ sys_stats'.app_mem_bytes = ProcessReading([process |-> HostEnvs[host].process]).memory]_vars

\* poll_sys_info has taken a sample before internal_sys_info has run: the
\* handle of SysStats::default was refreshed and holds the host's cores.
C23_Witness ==
    /\ ~in_preload
    /\ overlay
    /\ LastRan("poll_sys_info")
    /\ calls = OneSample
    /\ sys_stats.sys.cpus # <<>>
    /\ FreshFrom(sys_stats.sys, HostEnvs[host])
    /\ sys_stats.app_mem_bytes > 0

\* C24: at the end of every frame in which the overlay is visible and the
\* builders run, DebugSnapshot holds the latest sampler readings: its
\* cpu_all_percent, app_cpu_percent and app_mem_bytes equal those of
\* SysStats, also when poll_sys_info took a sample in the frame, under every
\* order of poll_sys_info and snap_perf the schedule permits.
C24_SnapshotHoldsLatest ==
    [][(overlay /\ pending # {} /\ pending' = {} /\ Len(ran') = 5)
       => /\ snapshot'.cpu_all_percent = sys_stats'.cpu_all_percent
          /\ snapshot'.app_cpu_percent = sys_stats'.app_cpu_percent
          /\ snapshot'.app_mem_bytes = sys_stats'.app_mem_bytes]_vars

-----------------------------------------------------------------------------
(* Properties of the pure functions, checked under FunctionSpec *)

\* The call of function name has returned.
Returned(name) == result # None /\ arg.fn = name

\* The order of the backends, and the labels of each, as documented.
BackendOrder == <<"nvml", "amdgpu", "drm", "dxgi", "metal">>

BackendTag(query) ==
    CASE query = "nvml" -> [source |-> <<"N", "V", "M", "L">>, scope |-> "per-process"]
      [] query = "amdgpu" -> [source |-> <<"a", "m", "d", "g", "p", "u", "-", "d", "e", "b", "u", "g", "f", "s">>, scope |-> "per-process"]
      [] query = "drm" -> [source |-> <<"L", "i", "n", "u", "x", " ", "D", "R", "M">>, scope |-> "device-wide"]
      [] query = "dxgi" -> [source |-> <<"D", "X", "G", "I">>, scope |-> "adapter-wide"]
      [] query = "metal" -> [source |-> <<"M", "e", "t", "a", "l">>, scope |-> "device-wide"]

BackendLabels == {"Vulkan", "OpenGL", "Metal", "DirectX12", "DirectX11", "Unknown"}

NamedTokens ==
    { <<"vulkan", "Vulkan">>, <<"gl", "OpenGL">>, <<"metal", "Metal">>, <<"dx12", "DirectX12">>,
      <<"DX12", "DirectX12">>, <<"dx11", "DirectX11">>, <<"DX11", "DirectX11">> }

\* C15: the backend-label mapping of snap_build is total: every token maps
\* to exactly one of Vulkan, OpenGL, Metal, DirectX12, DirectX11, Unknown,
\* the seven named tokens to their labels and every other token, other
\* letter cases such as VULKAN included, to Unknown.
C15_BackendLabelTotal ==
    Returned("BackendLabel") =>
        /\ result[1] \in BackendLabels
        /\ \A pair \in NamedTokens : arg.value = pair[1] => result[1] = pair[2]
        /\ (\A pair \in NamedTokens : arg.value # pair[1]) => result[1] = "Unknown"

\* The token VULKAN, in capitals, has been mapped to Unknown.
C15_Witness ==
    /\ Returned("BackendLabel")
    /\ arg.value = "VULKAN"
    /\ result[1] = "Unknown"

\* The natural number a sequence of decimal digits writes, -1 if it is none.
RECURSIVE Number(_)
Number(digits) ==
    LET IsDigit(c) == \E d \in 0..9 : Digit(d) = c
        ValueOf(c) == CHOOSE d \in 0..9 : Digit(d) = c
    IN  IF digits = <<>> \/ ~IsDigit(digits[Len(digits)]) THEN -1
        ELSE IF Len(digits) = 1 THEN ValueOf(digits[1])
        ELSE IF Number(SubSeq(digits, 1, Len(digits) - 1)) < 0 THEN -1
        ELSE 10 * Number(SubSeq(digits, 1, Len(digits) - 1)) + ValueOf(digits[Len(digits)])

\* The text without its last n characters, and its last n characters.
DropLast(text, n) == SubSeq(text, 1, Len(text) - n)

TakeLast(text, n) == SubSeq(text, Len(text) - n + 1, Len(text))

\* C16: fmt_bytes renders a byte count of at least 1073741824 as "X.X GB",
\* the count in GiB to the nearest tenth, and a smaller one as "X MB", the
\* count in MiB to the nearest whole; 0 is "0 MB", 1048576 is "1 MB",
\* 1073741823 is rendered in MB, 1073741824 is "1.0 GB" and 1610612736 is
\* "1.5 GB".
C16_FmtBytes ==
    Returned("fmt_bytes") =>
        LET bytes == arg.value
            text == result[1]
        IN  /\ bytes >= 1073741824 =>
                  /\ Len(text) >= 6
                  /\ TakeLast(text, 3) = <<" ", "G", "B">>
                  /\ text[Len(text) - 4] = "."
                  /\ Number(<<text[Len(text) - 3]>>) >= 0
                  /\ Number(DropLast(text, 5)) >= 0
                  /\ LET tenths == 10 * Number(DropLast(text, 5)) + Number(<<text[Len(text) - 3]>>)
                     IN  Abs(tenths * 1048576 - 10 * (bytes \div 1024)) <= 524288 + 10
            /\ bytes < 1073741824 =>
                  /\ Len(text) >= 4
                  /\ TakeLast(text, 3) = <<" ", "M", "B">>
                  /\ Number(DropLast(text, 3)) >= 0
                  /\ 2 * Abs(Number(DropLast(text, 3)) * 1048576 - bytes) <= 1048576
            /\ bytes = 0 => text = <<"0", " ", "M", "B">>
            /\ bytes = 1048576 => text = <<"1", " ", "M", "B">>
            /\ bytes = 1073741824 => text = <<"1", ".", "0", " ", "G", "B">>
            /\ bytes = 1610612736 => text = <<"1", ".", "5", " ", "G", "B">>

\* One byte below 1 GiB has been rendered in MB, as "1024 MB".
C16_Witness ==
    /\ Returned("fmt_bytes")
    /\ arg.value = 1073741823
    /\ result[1] = <<"1", "0", "2", "4", " ", "M", "B">>

\* smoothness * dt, in thousandths.
Exponent(input) == input.smoothness * input.dt

\* Input later has the frame time or the smoothness of input earlier raised
\* and the other one equal.
Raised(earlier, later) ==
    \/ later.smoothness = earlier.smoothness /\ later.dt > earlier.dt
    \/ later.dt = earlier.dt /\ later.smoothness > earlier.smoothness

\* C17 as stated: for every dt > 0 and smoothness > 0 the factor
\* t = 1 - exp(-smoothness*dt) lies strictly between 0 and 1, increases
\* strictly with dt and with smoothness, and tends to 1 as dt grows.
C17_AsStated ==
    Returned("SmoothFactor") =>
        /\ 0 < result[1] /\ result[1] < Milli
        /\ \A later \in SmoothInputs :
              Raised(arg.value, later) => SmoothFactor(later.smoothness, later.dt) > result[1]
        /\ (\A other \in SmoothInputs : other.dt <= arg.value.dt) => Milli - result[1] <= 1

\* C17, amended: t lies in [0, 1] and is non-decreasing in dt and in
\* smoothness.  It is strictly inside (0, 1) and strictly increasing while
\* smoothness*dt is at most 7, and it is exactly 1 once smoothness*dt is at
\* least 17.4, where exp(-smoothness*dt) is below half the spacing of f32
\* under 1.0 (2^-25); so t reaches 1 as dt grows.
C17_FactorSaturates ==
    Returned("SmoothFactor") =>
        /\ 0 <= result[1] /\ result[1] <= Milli
        /\ Exponent(arg.value) <= 7000 => (0 < result[1] /\ result[1] < Milli)
        /\ Exponent(arg.value) >= 17400 => result[1] = Milli
        /\ \A later \in SmoothInputs :
              Raised(arg.value, later) =>
                  /\ SmoothFactor(later.smoothness, later.dt) >= result[1]
                  /\ Exponent(later) <= 7000 => SmoothFactor(later.smoothness, later.dt) > result[1]
        /\ (\A other \in SmoothInputs : other.dt <= arg.value.dt) => Milli - result[1] <= 1

\* With the rotation smoothness of setup_test_scene and a frame of 2 s the
\* factor is exactly 1.
C17_Witness ==
    /\ Returned("SmoothFactor")
    /\ arg.value = [smoothness |-> 12, dt |-> 2000]
    /\ result[1] = Milli

\* The text with the blanks at its two ends removed: it begins and ends with
\* no blank, and blanks alone stand before and after it in whole.
Trimmed(whole, text) ==
    /\ text # <<>> => (Head(text) \notin Whitespace /\ text[Len(text)] \notin Whitespace)
    /\ \E before, after \in 0..Len(whole) :
          /\ before + Len(text) + after = Len(whole)
          /\ text = SubSeq(whole, before + 1, before + Len(text))
          /\ \A k \in 1..Len(whole) : (k <= before \/ k > before + Len(text)) => whole[k] \in Whitespace

\* The brand of core i of cpus is blank: empty once trimmed.
BlankBrand(cpus, i) == \A k \in DOMAIN cpus[i].brand : cpus[i].brand[k] \in Whitespace

\* C19: when snap_cpu_brand resolves the brand it stores the first per-core
\* brand, in core order, that is non-empty after trimming, trimmed; if no
\* core has such a brand, the trimmed name of the first core; if there is no
\* core, the literal "Unknown CPU".
C19_BrandResolution ==
    Returned("ResolveCpuBrand") =>
        LET cpus == arg.value
            brand == result[1]
        IN  /\ \A i \in DOMAIN cpus :
                  (~BlankBrand(cpus, i) /\ \A j \in 1..(i - 1) : BlankBrand(cpus, j))
                      => (brand # <<>> /\ Trimmed(cpus[i].brand, brand))
            /\ (cpus # <<>> /\ \A i \in DOMAIN cpus : BlankBrand(cpus, i))
                  => Trimmed(cpus[1].name, brand)
            /\ cpus = <<>> => brand = <<"U", "n", "k", "n", "o", "w", "n", " ", "C", "P", "U">>

\* The first two cores have a blank brand, the third has the brand " B ":
\* the brand stored is "B", and no core's name.
C19_Witness ==
    /\ Returned("ResolveCpuBrand")
    /\ Len(arg.value) = 3
    /\ BlankBrand(arg.value, 1) /\ BlankBrand(arg.value, 2)
    /\ arg.value[3].brand = <<" ", "B", " ">>
    /\ result[1] = <<"B">>

=============================================================================
